---- MODULE Spec2Model ----
(***************************************************************************)
(* niri-output-scaler: src/niri_output_scaler/__main__.py                  *)
(*                                                                         *)
(* Four specifications over one set of variables:                          *)
(*   SelSpec       find_next_scale called on bounded inputs;               *)
(*   CacheSpec     an arbitrary caller of niri_json_from_msg;              *)
(*   Spec          one run of main() beside a live compositor;             *)
(*   FairRunsSpec  main() run again and again on one command line, each    *)
(*                 run reading the scale the compositor then reports.      *)
(* A scale k stands for the Python float k.0.                              *)
(***************************************************************************)
EXTENDS Integers, Sequences, FiniteSets, TLC

VARIABLES
    pc,             \* position of the process / of the caller
    args,           \* argparse namespace: scale, output, direction
    live,           \* the compositor's current state
    hist,           \* every state the compositor has been in during the run
    seen,           \* message -> index in hist at which its niri process ran
    cache,          \* functools.cache of _niri_json_from_msg_cached
    started,        \* (message, type) -> number of niri query processes started
    failed,         \* (message, type) -> how many of them returned non-zero
    ret,            \* outcome of the last niri_json_from_msg call
    ncalls,         \* number of niri_json_from_msg calls made so far
    niri,           \* the NiriState built by NiriState.new
    current_scale,  \* find_next_scale parameter / local of main
    target_scales,  \* find_next_scale parameter / local of main
    direction,      \* find_next_scale parameter
    next_scale,     \* outcome of find_next_scale
    output_name,    \* local of main: target_output["name"]
    writes,         \* scale-write commands issued, with their return code
    exit_status,    \* exit status of the process, -1 while running
    report          \* what the run printed last

vars == <<pc, args, live, hist, seen, cache, started, failed, ret, ncalls, niri,
          current_scale, target_scales, direction, next_scale, output_name,
          writes, exit_status, report>>

selVars  == <<current_scale, target_scales, direction, next_scale>>
mainVars == <<args, niri, output_name, writes, exit_status, report>>
envVars  == <<live, hist, seen>>
cacheVars == <<cache, started, failed, ret, ncalls>>

----------------------------------------------------------------------------
(* Bounds *)
MaxScale   == 2    \* scales are 0.0 .. MaxScale.0
MaxLen     == 3    \* longest list handed to find_next_scale in SelSpec
MaxArgs    == 2    \* most --scale flags on the command line in Spec
MaxWs      == 1    \* most workspaces the compositor reports
MaxChanges == 1    \* compositor changes during one run
MaxCalls   == 3    \* niri_json_from_msg calls in CacheSpec

Scales == 0..MaxScale

Range(s) == {s[i] : i \in DOMAIN s}

----------------------------------------------------------------------------
(* Python values *)
None         == [type |-> "NoneType"]
Float(v)     == [type |-> "float", value |-> v]
Raised(e)    == [type |-> "raise", exc |-> e]
Pending      == [type |-> "pending"]

\* bool(x) of an Optional[float]: None and 0.0 are falsy
Truthy(x) == x.type = "float" /\ x.value # 0

\* Python's `a or b`
Or(a, b) == IF Truthy(a) THEN a ELSE b

Digit(k) ==
    CASE k = 0 -> "0" [] k = 1 -> "1" [] k = 2 -> "2" [] k = 3 -> "3"
      [] k = 4 -> "4" [] k = 5 -> "5" [] k = 6 -> "6" [] k = 7 -> "7"
      [] k = 8 -> "8" [] k = 9 -> "9"

\* str(k.0), as line 147 formats the scale it writes
FloatStr(k) == Digit(k) \o ".0"

RECURSIVE Insert(_, _)
Insert(x, s) ==
    IF s = <<>> THEN <<x>>
    ELSE IF x < Head(s) THEN <<x>> \o s
    ELSE <<Head(s)>> \o Insert(x, Tail(s))

RECURSIVE sorted(_)
\* sorted(list): ascending, stable
sorted(s) == IF s = <<>> THEN <<>> ELSE Insert(s[Len(s)], sorted(SubSeq(s, 1, Len(s) - 1)))

IsSorted(s) == \A i \in 1..(Len(s) - 1) : s[i] <= s[i + 1]

SeqsUpTo(S, n) == UNION {[1..k -> S] : k \in 0..n}

----------------------------------------------------------------------------
(* find_next_scale, lines 153-182 *)

\* lines 167-170: for s in target_scales: if s > current_scale: ...; break
ScanForwards(cur, T) ==
    IF \E i \in DOMAIN T : T[i] > cur
    THEN LET i == CHOOSE i \in DOMAIN T :
                     T[i] > cur /\ \A j \in 1..(i - 1) : ~(T[j] > cur)
         IN  Float(T[i])
    ELSE None

\* lines 173-176: for s in reversed(target_scales): if s < current_scale: ...
ScanBackwards(cur, T) ==
    IF \E i \in DOMAIN T : T[i] < cur
    THEN LET i == CHOOSE i \in DOMAIN T :
                     T[i] < cur /\ \A j \in (i + 1)..Len(T) : ~(T[j] < cur)
         IN  Float(T[i])
    ELSE None

find_next_scale_default(cur, T, dir) ==
    IF T = <<>> THEN None
    ELSE CASE dir = "backwards" -> Or(ScanBackwards(cur, T), Float(T[Len(T)]))
           [] OTHER -> Or(ScanForwards(cur, T), Float(T[1]))

find_next_scale_stay(cur, T, dir) ==
    IF T = <<>> THEN None
    ELSE CASE dir = "forwards"  -> Or(ScanForwards(cur, T), Float(cur))
           [] dir = "backwards" -> Or(ScanBackwards(cur, T), Float(cur))
           [] OTHER -> Raised("ValueError")

find_next_scale(cur, T, dir) ==
    IF T = <<>> THEN None                                           \* 160-161
    ELSE CASE dir = "forwards" ->
                Or(ScanForwards(cur, T), Float(T[1]))               \* 171
           [] dir = "backwards" ->
                Or(ScanBackwards(cur, T), Float(T[Len(T)]))         \* 177
           [] OTHER -> Raised("ValueError")                         \* 179-180

----------------------------------------------------------------------------
(* The compositor: what `niri msg --json workspaces|outputs` reports *)

OutputNames == {"eDP-1", "DP-1"}

\* the scales an output runs at: unscaled, or the largest scale of the model
OutputScales == {1, MaxScale}
Messages    == {"workspaces", "outputs"}
Types       == {"Sequence", "Mapping"}
Keys        == Messages \X Types

\* OutputEntryDict, lines 58-76, cut to the fields main reads
OutputEntry(n, k) == [name |-> n, logical |-> [scale |-> k]]

\* the output mappings over the names in D, keyed by the entry's own name
OutputMaps(D) ==
    {[n \in D |-> OutputEntry(n, k[n])] : k \in [D -> OutputScales]}

\* WorkspaceEntryDict, lines 49-56: `output` is NotRequired (an absent key
\* stands for every value `focused.get("output")` finds falsy)
WorkspaceEntries(D) ==
    [is_focused : BOOLEAN] \cup [is_focused : BOOLEAN, output : D]

AtMostOneFocused(ws) ==
    \A i, j \in DOMAIN ws : (ws[i].is_focused /\ ws[j].is_focused) => i = j

\* consistent compositor states: a workspace sits on a connected output or on
\* none, and at most one workspace is focused
CompStates ==
    UNION {
      {[workspaces |-> ws, outputs |-> om] :
          ws \in {w \in SeqsUpTo(WorkspaceEntries(D), MaxWs) : AtMostOneFocused(w)},
          om \in OutputMaps(D)} :
      D \in SUBSET OutputNames}

\* focus moves to workspace i, or to none when i = 0
FocusTo(st, i) ==
    [st EXCEPT !.workspaces =
        [j \in DOMAIN st.workspaces |->
            [st.workspaces[j] EXCEPT !.is_focused = (j = i)]]]

\* output n is unplugged: it leaves the mapping, its workspaces lose their output
Unplug(st, n) ==
    [workspaces |->
        [j \in DOMAIN st.workspaces |->
            LET w == st.workspaces[j] IN
            IF "output" \in DOMAIN w /\ w.output = n
            THEN [is_focused |-> w.is_focused] ELSE w],
     outputs |-> [m \in DOMAIN st.outputs \ {n} |-> st.outputs[m]]]

\* output n is plugged in at scale k
Plug(st, n, k) ==
    [st EXCEPT !.outputs =
        [m \in DOMAIN st.outputs \cup {n} |->
            IF m = n THEN OutputEntry(n, k) ELSE st.outputs[m]]]

\* `niri msg output n scale k` took effect
Rescale(st, n, k) ==
    [st EXCEPT !.outputs[n].logical.scale = k]

CompositorSteps(st) ==
    ({FocusTo(st, i) : i \in 0..Len(st.workspaces)}
       \cup {Unplug(st, n) : n \in DOMAIN st.outputs}
       \cup {Plug(st, n, k) : n \in OutputNames \ DOMAIN st.outputs, k \in OutputScales})
    \ {st}

----------------------------------------------------------------------------
(* niri_json_from_msg, lines 25-46 *)

Json(v) == [type |-> "json", value |-> v]

niri_json_from_msg_raw_stale(msg, st) ==
    Json(IF msg = "workspaces" THEN hist[1].workspaces ELSE hist[1].outputs)

\* lines 26-36: what the niri process prints for msg while the compositor is in st
niri_json_from_msg_raw(msg, st) ==
    Json(IF msg = "workspaces" THEN st.workspaces ELSE st.outputs)

\* functools.cache keys on the positional and keyword arguments, lines 39-41
CacheKey(msg, ty) == <<msg, ty>>

CacheStoreNothing(c, key, v) == c

\* functools.cache stores the value a call returned
CacheStore(c, key, v) ==
    [k \in DOMAIN c \cup {key} |-> IF k = key THEN v ELSE c[k]]

\* One call niri_json_from_msg(msg, type=ty); rc is the niri process's return
\* code should the call start one.
niri_json_from_msg(msg, ty, rc) ==
    LET key == CacheKey(msg, ty) IN
    /\ ncalls' = ncalls + 1
    /\ IF key \in DOMAIN cache
       THEN /\ ret' = cache[key]                                    \* cache hit
            /\ UNCHANGED <<cache, started, failed, seen>>
       ELSE /\ started' = [started EXCEPT ![<<msg, ty>>] = @ + 1]   \* 26-27
            /\ seen' = [seen EXCEPT ![msg] = Len(hist)]
            /\ IF rc # 0
               THEN /\ ret' = Raised("Exception")                   \* 28-29
                    /\ failed' = [failed EXCEPT ![<<msg, ty>>] = @ + 1]
                    /\ cache' = cache
               ELSE /\ ret' = niri_json_from_msg_raw(msg, live)     \* 34-36
                    /\ failed' = failed
                    /\ cache' = CacheStore(cache, key, ret')

----------------------------------------------------------------------------
(* NiriState, lines 78-106 *)

\* lines 95-97
focused_workspace(st) ==
    IF \E i \in DOMAIN st.workspaces : st.workspaces[i].is_focused
    THEN st.workspaces[CHOOSE i \in DOMAIN st.workspaces :
            /\ st.workspaces[i].is_focused
            /\ \A j \in 1..(i - 1) : ~st.workspaces[j].is_focused]
    ELSE None

focused_output_any(st) ==
    LET focused == focused_workspace(st) IN
    IF focused # None /\ "output" \in DOMAIN focused /\ focused.output \in DOMAIN st.outputs
    THEN st.outputs[focused.output]
    ELSE IF DOMAIN st.outputs # {}
         THEN st.outputs[CHOOSE n \in DOMAIN st.outputs : TRUE]
         ELSE None

\* lines 103-106
focused_output(st) ==
    LET focused == focused_workspace(st) IN
    IF focused # None /\ "output" \in DOMAIN focused
    THEN IF focused.output \in DOMAIN st.outputs                    \* outputs.get
         THEN st.outputs[focused.output]
         ELSE None
    ELSE None

----------------------------------------------------------------------------
(* main, lines 109-151 *)

NoState == [workspaces |-> <<>>, outputs |-> <<>>]

\* what argparse can hand to main: no --scale leaves args.scale at None
ArgsSet ==
    [scale     : {None} \cup {[type |-> "list", value |-> s] :
                                s \in SeqsUpTo(Scales, MaxArgs) \ {<<>>}},
     output    : {"@current"} \cup OutputNames,
     direction : {"forwards", "backwards"}]

\* lines 129-138: the Output record, or the message of the failed resolution
ResolveOutput(a, st) ==
    IF a.output = "@current"
    THEN IF focused_output(st) = None
         THEN [type |-> "exit", message |-> "No focused output!"]
         ELSE focused_output(st)
    ELSE IF a.output \in DOMAIN st.outputs
         THEN st.outputs[a.output]
         ELSE [type |-> "exit", message |-> "Could not find an output named"]

Exit(status, message) ==
    /\ pc' = "done"
    /\ exit_status' = status
    /\ report' = message

\* line 127, first half: NiriState.new queries the workspaces (85-87)
ReadWorkspaces ==
    /\ pc = "start"
    /\ \E rc \in {0, 1} : niri_json_from_msg("workspaces", "Sequence", rc)
    /\ IF ret'.type = "raise"
       THEN /\ Exit(1, "Traceback: Exception")
            /\ niri' = niri
       ELSE /\ niri' = [niri EXCEPT !.workspaces = ret'.value]
            /\ pc' = "workspaces_read"
            /\ UNCHANGED <<exit_status, report>>
    /\ UNCHANGED <<args, live, hist, selVars, output_name, writes>>

\* lines 89-144: NiriState.new queries the outputs, main resolves the target
\* output, sorts the target scales and selects the next scale
ReadOutputsAndSelect ==
    /\ pc = "workspaces_read"
    /\ \E rc \in {0, 1} : niri_json_from_msg("outputs", "Mapping", rc)
    /\ UNCHANGED <<args, live, hist, writes>>
    /\ IF ret'.type = "raise"
       THEN /\ Exit(1, "Traceback: Exception")
            /\ UNCHANGED <<niri, selVars, output_name>>
       ELSE
         /\ niri' = [niri EXCEPT !.outputs = ret'.value]            \* 93
         /\ LET target_output == ResolveOutput(args, niri') IN
            IF "type" \in DOMAIN target_output
            THEN /\ Exit(1, target_output.message)                  \* 131-132, 137-138
                 /\ UNCHANGED <<selVars, output_name>>
            ELSE
              /\ output_name' = target_output.name                  \* 140
              /\ current_scale' = target_output.logical.scale       \* 141
              /\ IF args.scale = None
                 THEN /\ Exit(1, "Traceback: TypeError")            \* 142: sorted(None)
                      /\ UNCHANGED <<target_scales, direction, next_scale>>
                 ELSE
                   /\ target_scales' = sorted(args.scale.value)     \* 142
                   /\ direction' = args.direction
                   /\ next_scale' = find_next_scale(current_scale', target_scales',
                                                    args.direction) \* 144
                   /\ IF Truthy(next_scale')                        \* 145
                      THEN /\ pc' = "writing"
                           /\ report' = "Scaling"                   \* 146
                           /\ UNCHANGED exit_status
                      ELSE Exit(0, "Did not find a next scale WAT") \* 151

\* lines 147-149: the scale-write command runs, main returns
WriteScale ==
    /\ pc = "writing"
    /\ \E rc \in {0, 1} :
        /\ rc = 0 => output_name \in DOMAIN live.outputs
        /\ writes' = Append(writes,
              [cmd |-> <<"niri", "msg", "output", output_name, "scale",
                         FloatStr(next_scale.value)>>,
               returncode |-> rc])
        /\ live' = IF rc = 0 THEN Rescale(live, output_name, next_scale.value) ELSE live
        /\ hist' = IF live' # live THEN Append(hist, live') ELSE hist
        /\ Exit(0, IF rc # 0 THEN "Could not switch to next scale!" ELSE "Scaling")
    /\ UNCHANGED <<args, seen, cacheVars, niri, selVars, output_name>>

\* the compositor changes while the run is between its two read queries, or
\* between the outputs query and the scale write; changes before the first
\* query are the choice of the initial state
CompositorChange ==
    /\ pc \in {"workspaces_read", "writing"}
    /\ Len(hist) <= MaxChanges
    /\ \E st \in CompositorSteps(live) :
        /\ live' = st
        /\ hist' = Append(hist, st)
    /\ UNCHANGED <<pc, args, seen, cacheVars, mainVars, selVars>>

Init ==
    /\ pc = "start"
    /\ args \in ArgsSet
    /\ live \in CompStates
    /\ hist = <<live>>
    /\ seen = [m \in Messages |-> 0]
    /\ cache = <<>>
    /\ started = [k \in Keys |-> 0]
    /\ failed = [k \in Keys |-> 0]
    /\ ret = Pending
    /\ ncalls = 0
    /\ niri = NoState
    /\ current_scale = 0
    /\ target_scales = <<>>
    /\ direction = "forwards"
    /\ next_scale = Pending
    /\ output_name = ""
    /\ writes = <<>>
    /\ exit_status = -1
    /\ report = ""

Next ==
    \/ ReadWorkspaces
    \/ ReadOutputsAndSelect
    \/ WriteScale
    \/ CompositorChange

Spec == Init /\ [][Next]_vars

----------------------------------------------------------------------------
(* find_next_scale on its own: called on bounded inputs *)

Directions == {"forwards", "backwards"}

SortedLists == {T \in SeqsUpTo(Scales, MaxLen) : IsSorted(T)}

\* the variables a specification does not use, at rest
IdleMain ==
    /\ args = [scale |-> None, output |-> "@current", direction |-> "forwards"]
    /\ niri = NoState
    /\ output_name = ""
    /\ writes = <<>>
    /\ exit_status = -1
    /\ report = ""

IdleCache ==
    /\ seen = [m \in Messages |-> 0]
    /\ cache = <<>>
    /\ started = [k \in Keys |-> 0]
    /\ failed = [k \in Keys |-> 0]
    /\ ret = Pending
    /\ ncalls = 0

SelInit ==
    /\ pc = "call"
    /\ current_scale \in Scales
    /\ target_scales \in SortedLists
    /\ direction \in Directions \cup {"sideways"}
    /\ next_scale = Pending
    /\ live = NoState
    /\ hist = <<live>>
    /\ IdleMain
    /\ IdleCache

\* find_next_scale(current_scale, target_scales, direction) runs
CallFindNextScale ==
    /\ pc = "call"
    /\ next_scale' = find_next_scale(current_scale, target_scales, direction)
    /\ pc' = "returned"
    /\ UNCHANGED <<current_scale, target_scales, direction,
                   envVars, cacheVars, mainVars>>

SelNext == CallFindNextScale

SelSpec == SelInit /\ [][SelNext]_vars

----------------------------------------------------------------------------
(* main run again and again: the user keeps pressing the cycling key *)

\* what any client of the compositor may do while no run is in progress:
\* the changes of CompositorSteps, or a rescale of a connected output
ClientSteps(st) ==
    (CompositorSteps(st)
       \cup {Rescale(st, n, k) : n \in DOMAIN st.outputs, k \in OutputScales})
    \ {st}

\* the tool is invoked again with the same command line: a new process, with
\* an empty cache, that has yet to query the compositor
NextRun ==
    /\ pc = "done"
    /\ pc' = "start"
    /\ hist' = <<live>>
    /\ seen' = [m \in Messages |-> 0]
    /\ cache' = <<>>
    /\ started' = [k \in Keys |-> 0]
    /\ failed' = [k \in Keys |-> 0]
    /\ ret' = Pending
    /\ ncalls' = 0
    /\ niri' = NoState
    /\ current_scale' = 0
    /\ target_scales' = <<>>
    /\ direction' = "forwards"
    /\ next_scale' = Pending
    /\ output_name' = ""
    /\ writes' = <<>>
    /\ exit_status' = -1
    /\ report' = ""
    /\ UNCHANGED <<args, live>>

\* the compositor changes after one run has ended and before the next one
\* has made its first query
ChangeBetweenRuns ==
    /\ pc = "start"
    /\ \E st \in ClientSteps(live) :
        /\ live' = st
        /\ hist' = <<st>>
    /\ UNCHANGED <<pc, args, seen, cacheVars, mainVars, selVars>>

RunsNext ==
    \/ ReadWorkspaces
    \/ ReadOutputsAndSelect
    \/ WriteScale
    \/ CompositorChange
    \/ NextRun
    \/ ChangeBetweenRuns

\* every started run takes its steps to the end, and the tool is invoked
\* again after every run; what the compositor and its other clients do, and
\* whether a query or a write succeeds, is left open
FairRunsSpec ==
    /\ Init /\ [][RunsNext]_vars
    /\ WF_vars(ReadWorkspaces)
    /\ WF_vars(ReadOutputsAndSelect)
    /\ WF_vars(WriteScale)
    /\ WF_vars(NextRun)

----------------------------------------------------------------------------
(* niri_json_from_msg on its own: a caller that survives a failed query *)

CacheInit ==
    /\ pc = "caller"
    /\ live \in {st \in CompStates :
                    /\ DOMAIN st.outputs = OutputNames
                    /\ Len(st.workspaces) = 1
                    /\ st.workspaces[1].is_focused
                    /\ "output" \in DOMAIN st.workspaces[1]}
    /\ hist = <<live>>
    /\ current_scale = 0
    /\ target_scales = <<>>
    /\ direction = "forwards"
    /\ next_scale = Pending
    /\ IdleMain
    /\ IdleCache

CallNiriJsonFromMsg ==
    /\ pc = "caller"
    /\ ncalls < MaxCalls
    /\ \E msg \in Messages, ty \in Types, rc \in {0, 1} :
          niri_json_from_msg(msg, ty, rc)
    /\ UNCHANGED <<pc, live, hist, mainVars, selVars>>

\* the compositor changes between two calls
CallerCompositorChange ==
    /\ pc = "caller"
    /\ Len(hist) <= MaxChanges
    /\ \E st \in CompositorSteps(live) :
        /\ live' = st
        /\ hist' = Append(hist, st)
    /\ UNCHANGED <<pc, seen, cacheVars, mainVars, selVars>>

CacheNext ==
    \/ CallNiriJsonFromMsg
    \/ CallerCompositorChange

CacheSpec == CacheInit /\ [][CacheNext]_vars

----------------------------------------------------------------------------
(* What the claims expect of find_next_scale *)

\* the first target, scanning ascending, strictly greater than cur, else targets[0]
ExpectedForwards(cur, T) ==
    IF \E i \in DOMAIN T : T[i] > cur
    THEN T[CHOOSE i \in DOMAIN T : T[i] > cur /\ \A j \in DOMAIN T : T[j] > cur => i <= j]
    ELSE T[1]

\* the first target, scanning descending, strictly less than cur, else targets[-1]
ExpectedBackwards(cur, T) ==
    IF \E i \in DOMAIN T : T[i] < cur
    THEN T[CHOOSE i \in DOMAIN T : T[i] < cur /\ \A j \in DOMAIN T : T[j] < cur => j <= i]
    ELSE T[Len(T)]

Expected(cur, T, dir) ==
    IF dir = "forwards" THEN ExpectedForwards(cur, T) ELSE ExpectedBackwards(cur, T)

Returned == pc = "returned"

\* C1: for every current scale and every non-empty sorted target list,
\* forwards returns the first target strictly greater than current, or
\* targets[0] when there is none; backwards returns the first target strictly
\* less than current, or targets[-1] when there is none.
C1_FirstStrictlyBeyond ==
    (Returned /\ target_scales # <<>> /\ direction \in Directions)
        => next_scale = Float(Expected(current_scale, target_scales, direction))

\* the wrap rule leaves find_next_scale no other element to return: every
\* element of T equals cur
NoOtherTarget(cur, T) == \A i \in DOMAIN T : T[i] = cur

\* C2: when current exactly equals an element of the sorted target list and
\* the list holds an element different from current, find_next_scale does not
\* return current, whatever the direction.  (The claim also covers the lists
\* whose elements all equal current; there targets[0] and targets[-1] are
\* current itself, and that case is left out of the statement.)
C2_EqualNeverReturned ==
    (Returned /\ direction \in Directions /\ current_scale \in Range(target_scales)
       /\ ~NoOtherTarget(current_scale, target_scales))
        => next_scale # Float(current_scale)

\* the step in which a run's scale write takes effect
WriteTookEffect ==
    pc = "writing" /\ pc' = "done" /\ writes'[Len(writes')].returncode = 0

\* a step of the compositor that is not the tool's own write
Interference == CompositorChange \/ ChangeBetweenRuns

\* a run has ended and the output it resolved is at scale v
TargetAt(v) ==
    /\ pc = "done"
    /\ output_name \in DOMAIN live.outputs
    /\ live.outputs[output_name].logical.scale = v

\* C3: running the tool again and again on one command line, each run
\* reading the scale the previous run wrote, takes the output through every
\* element of the target list again and again: every write that takes effect
\* sets the output to the cyclic successor (forwards) or predecessor
\* (backwards) of the scale the run read, and, once nothing but the tool
\* changes the compositor and as long as writes keep taking effect, every
\* target scale is reached again and again.
C3_CyclesThroughAll ==
    /\ [][WriteTookEffect
             => live'.outputs[output_name].logical.scale
                  = Expected(current_scale, target_scales, direction)]_vars
    /\ \A v \in Scales :
          (<>[][~Interference]_vars /\ []<><<WriteTookEffect>>_vars)
            => []<>((args.scale # None /\ v \in Range(args.scale.value))
                       => TargetAt(v))

\* C4 as claimed: with a direction other than forwards or backwards the call
\* fails with an invalid-argument error, for every target list, empty or not.
C4_InvalidDirectionRaises ==
    (Returned /\ direction \notin Directions) => next_scale = Raised("ValueError")

\* C4 amended: with a direction other than forwards or backwards the call
\* fails with an invalid-argument error when the target list is non-empty,
\* and returns none, the direction unexamined, when the target list is empty.
C4_InvalidDirectionRaisesUnlessEmpty ==
    (Returned /\ direction \notin Directions)
        => /\ target_scales # <<>> => next_scale = Raised("ValueError")
           /\ target_scales = <<>> => next_scale = None

\* an invalid direction with a non-empty target list has raised
C4_Witness ==
    /\ Returned
    /\ direction = "sideways"
    /\ Len(target_scales) >= 2
    /\ next_scale = Raised("ValueError")

----------------------------------------------------------------------------
(* What the claims expect of one run of main *)

\* NiriState.new returned: both read queries succeeded
Built == CacheKey("outputs", "Mapping") \in DOMAIN cache /\ pc \in {"writing", "done"}

\* output resolution fails on the snapshot, in the claim's own words
ResolutionFails ==
    IF args.output = "@current"
    THEN \A i \in DOMAIN niri.workspaces :
            niri.workspaces[i].is_focused
              => \/ "output" \notin DOMAIN niri.workspaces[i]
                 \/ niri.workspaces[i].output \notin DOMAIN niri.outputs
    ELSE args.output \notin DOMAIN niri.outputs

\* C5: whenever output resolution fails, the run ends with exit status 1 and
\* has issued no scale-write command.
C5_FailedResolutionExits1 ==
    (Built /\ ResolutionFails)
        => (pc = "done" /\ exit_status = 1 /\ writes = <<>>)

\* the focused workspace names an output that is not in the output mapping
C5_Witness ==
    /\ Built
    /\ args.output = "@current"
    /\ \E i \in DOMAIN niri.workspaces :
          /\ niri.workspaces[i].is_focused
          /\ "output" \in DOMAIN niri.workspaces[i]
          /\ niri.workspaces[i].output \notin DOMAIN niri.outputs
    /\ report = "No focused output!"
    /\ exit_status = 1

\* C6: a scale-write command that exits non-zero makes the tool exit with
\* status 1; exit status 0 occurs only when the write succeeded or the run
\* was a graceful no-op.
C6_WriteFailureExits1 ==
    pc = "done"
        => /\ (writes # <<>> /\ writes[1].returncode # 0) => exit_status = 1
           /\ exit_status = 0
                => \/ writes # <<>> /\ writes[1].returncode = 0
                   \/ writes = <<>> /\ report = "Did not find a next scale WAT"

\* C7: with no target scale supplied and output resolution succeeding, the run
\* is a graceful no-op: no action reported, no write, exit status 0.
C7_NoScaleIsNoOp ==
    (pc = "done" /\ Built /\ ~ResolutionFails /\ args.scale = None)
        => /\ exit_status = 0
           /\ writes = <<>>
           /\ report = "Did not find a next scale WAT"

\* C8 as claimed: the workspaces and the output mapping of the NiriState are
\* those of one and the same compositor state, whatever the compositor does
\* during the run.
C8_AtomicSnapshot ==
    Built => \E i \in DOMAIN hist :
                /\ niri.workspaces = hist[i].workspaces
                /\ niri.outputs = hist[i].outputs

\* C8 amended: the workspaces are those of the compositor state at the first
\* query and the output mapping is that of the compositor state at the
\* second, later query; the two are one state only when the compositor did
\* not change in between.
C8_SnapshotPerQuery ==
    Built => /\ seen["workspaces"] \in DOMAIN hist
             /\ seen["outputs"] \in DOMAIN hist
             /\ seen["workspaces"] <= seen["outputs"]
             /\ niri.workspaces = hist[seen["workspaces"]].workspaces
             /\ niri.outputs = hist[seen["outputs"]].outputs

\* the compositor changed between the queries and the snapshot is no state
\* the compositor was ever in
C8_Witness ==
    /\ Built
    /\ seen["workspaces"] < seen["outputs"]
    /\ ~ \E i \in DOMAIN hist :
            /\ niri.workspaces = hist[i].workspaces
            /\ niri.outputs = hist[i].outputs

\* C9 as claimed, for calls that name the same message with the same type:
\* the external query process is started at most once per distinct message,
\* also when an earlier query for that message failed.
C9_OncePerMessage ==
    \A m \in Messages, ty \in Types : started[CacheKey(m, ty)] <= 1

\* C9 amended: per distinct message and type, at most one external query
\* succeeds and its result is the one kept; a further query for them is
\* started only when every earlier one failed.
C9_OneSuccessPerKey ==
    \A k \in Keys :
        /\ started[k] - failed[k] <= 1
        /\ k \in DOMAIN cache <=> started[k] - failed[k] = 1

\* a query failed, its retry succeeded, and a third call was a cache hit
C9_Witness ==
    \E k \in Keys :
        /\ failed[k] = 1
        /\ started[k] = 2
        /\ k \in DOMAIN cache
        /\ ncalls = 3
        /\ \A o \in Keys \ {k} : started[o] = 0

\* C10: the scale-write command is issued at most once, only after both read
\* queries completed and output resolution succeeded; it names the resolved
\* output and the scale it writes is one of the target scales supplied.
C10_SingleWriteOfATarget ==
    /\ Len(writes) <= 1
    /\ writes # <<>> =>
         /\ Built
         /\ started[CacheKey("workspaces", "Sequence")] = 1
         /\ started[CacheKey("outputs", "Mapping")] = 1
         /\ ~ResolutionFails
         /\ IF args.output = "@current"
            THEN \E i \in DOMAIN niri.workspaces :
                    /\ niri.workspaces[i].is_focused
                    /\ niri.workspaces[i].output = writes[1].cmd[4]
            ELSE writes[1].cmd[4] = args.output
         /\ args.scale # None
         /\ \E i \in DOMAIN args.scale.value :
                writes[1].cmd[6] = FloatStr(args.scale.value[i])

\* an unsorted pair of target scales, and the write went to the focused output
C10_Witness ==
    /\ pc = "done"
    /\ Len(writes) = 1
    /\ writes[1].returncode = 0
    /\ args.output = "@current"
    /\ Len(args.scale.value) = 2
    /\ args.scale.value[1] > args.scale.value[2]
    /\ next_scale.value > current_scale

====
